---- MODULE Spec2Model ----
(***************************************************************************)
(* The form-state engine useForm (values, errors, isSubmitting,            *)
(* isValidating, the debounced field validation, validateForm and the      *)
(* submit handler) as a state machine.  One step of the machine is one     *)
(* run of the JavaScript event loop up to the next suspension point that   *)
(* waits on a timer or on a promise of the caller (an asynchronous custom   *)
(* predicate, the submit callback).                                         *)
(***************************************************************************)
EXTENDS Integers, Sequences, FiniteSets

(***************************************************************************)
(* JavaScript values: strings (as sequences of characters), numbers, null  *)
(* and undefined.                                                           *)
(***************************************************************************)
Str(s) == [t |-> "string", n |-> 0, s |-> s]
Num(n) == [t |-> "number", n |-> n, s |-> <<>>]
Null == [t |-> "null", n |-> 0, s |-> <<>>]
Undefined == [t |-> "undefined", n |-> 0, s |-> <<>>]

EmptyString == Str(<<>>)
Short == Str(<<"a", "b">>)
Taken == Str(<<"t", "a", "k", "e", "n">>)
Mail == Str(<<"a", "@", "b", ".", "c">>)
LongMail == Str(<<"a", "@", "b", "b", ".", "c", "c">>)

Values ==
    {EmptyString, Short, Taken, Mail, LongMail, Num(0), Num(17), Num(18), Null, Undefined}

\* a variant of Falsy that takes only null and undefined for absent (as
\* value == null would); C2 is checked to tell the two apart
FalsyNullish(value) == value.t \in {"null", "undefined"}

\* !value
Falsy(value) ==
    \/ value.t \in {"null", "undefined"}
    \/ value.t = "string" /\ value.s = <<>>
    \/ value.t = "number" /\ value.n = 0

\* value.length raises a TypeError when value is null or undefined
LengthThrows(value) == value.t \in {"null", "undefined"}

\* value.length < bound: the length of a number is undefined, and
\* undefined < bound is false
LengthLess(value, bound) == value.t = "string" /\ Len(value.s) < bound

\* value.length > bound
LengthGreater(value, bound) == value.t = "string" /\ Len(value.s) > bound

DigitChars == <<"0", "1", "2", "3", "4", "5", "6", "7", "8", "9">>

RECURSIVE Digits(_)
Digits(n) ==
    IF n < 10 THEN <<DigitChars[n + 1]>>
    ELSE Digits(n \div 10) \o <<DigitChars[(n % 10) + 1]>>

\* String(value), the conversion RegExp.prototype.test applies to its argument
StringOf(value) ==
    CASE value.t = "string" -> value.s
      [] value.t = "number" -> Digits(value.n)
      [] value.t = "null" -> <<"n", "u", "l", "l">>
      [] value.t = "undefined" -> <<"u", "n", "d", "e", "f", "i", "n", "e", "d">>

\* /^[^@]+@[^@]+\.[^@]+$/ : one "@", not first; after it at least one
\* character, then a ".", then at least one character
EmailRegExp(s) ==
    \E at \in 2..Len(s) :
        /\ s[at] = "@"
        /\ \A i \in 1..Len(s) : s[i] = "@" => i = at
        /\ \E dot \in (at + 2)..(Len(s) - 1) : s[dot] = "."

\* pattern.value.test(value)
RegExpTest(pattern, value) ==
    CASE pattern = "email" -> EmailRegExp(StringOf(value))

DigitValue(c) == CHOOSE d \in 0..9 : DigitChars[d + 1] = c

RECURSIVE ParseDigits(_)
ParseDigits(s) ==
    IF s = <<>> THEN 0
    ELSE 10 * ParseDigits(SubSeq(s, 1, Len(s) - 1)) + DigitValue(s[Len(s)])

\* Number(value), the conversion >= applies: NaN for undefined and for a
\* string that is no numeral, 0 for null and for the empty string
ToNumber(value) ==
    CASE value.t = "number" -> [nan |-> FALSE, n |-> value.n]
      [] value.t = "null" -> [nan |-> FALSE, n |-> 0]
      [] value.t = "undefined" -> [nan |-> TRUE, n |-> 0]
      [] value.t = "string" ->
            IF \A i \in 1..Len(value.s) : \E d \in 1..10 : DigitChars[d] = value.s[i]
            THEN [nan |-> FALSE, n |-> ParseDigits(value.s)]
            ELSE [nan |-> TRUE, n |-> 0]

\* the custom predicates of the test suite:
\* (value) => value !== 'taken' and (value) => value >= 18
CustomValidate(validate, value) ==
    CASE validate = "notTaken" -> value # Taken
      [] validate = "adult" -> ~ToNumber(value).nan /\ ToNumber(value).n >= 18

(***************************************************************************)
(* ValidationRule: required is the message, "" when the rule is not given  *)
(* (the code tests rules.required for truthiness); the other rules are     *)
(* records, on = FALSE when the rule is not given.                          *)
(***************************************************************************)
NoBound == [on |-> FALSE, value |-> 0, message |-> ""]
NoPattern == [on |-> FALSE, value |-> "", message |-> ""]
NoCustom == [on |-> FALSE, validate |-> "", async |-> FALSE, message |-> ""]

MinLengthRule == [on |-> TRUE, value |-> 3, message |-> "too short"]
MaxLengthRule == [on |-> TRUE, value |-> 5, message |-> "too long"]
PatternRule == [on |-> TRUE, value |-> "email", message |-> "Invalid email address"]
TakenRule ==
    [on |-> TRUE, validate |-> "notTaken", async |-> TRUE,
     message |-> "Username is already taken"]
AdultRule ==
    [on |-> TRUE, validate |-> "adult", async |-> FALSE,
     message |-> "You must be at least 18 years old"]

ValidationRule ==
    [required : {"", "required"},
     minLength : {NoBound, MinLengthRule},
     maxLength : {NoBound, MaxLengthRule},
     pattern : {NoPattern, PatternRule},
     custom : {NoCustom, TakenRule, AdultRule}]

Names == {"username", "email"}

\* for (const name in validationRules): the keys in insertion order
RuleOrder == <<"username", "email">>

EmptyMap == [x \in {} |-> ""]

\* a variant of Put that drops the other keys (as { [key]: value } would);
\* C13 is checked to tell the two apart
PutOnly(map, key, value) == [x \in {key} |-> value]

\* { ...map, [key]: value }
Put(map, key, value) ==
    [x \in DOMAIN map \cup {key} |-> IF x = key THEN value ELSE map[x]]

(***************************************************************************)
(* The rule chain of validateField and validateForm up to the custom       *)
(* predicate: the error it settles on, a TypeError, or the call of the     *)
(* custom predicate.                                                        *)
(***************************************************************************)
Settled(error) == [kind |-> "error", error |-> error]
Throws == [kind |-> "throw", error |-> ""]
CallsCustom == [kind |-> "custom", error |-> ""]

\* a variant of EvalRules that tests pattern before minLength; C1 is checked
\* to tell the two apart
EvalRulesPatternFirst(rules, value) ==
    IF rules.required # "" /\ Falsy(value) THEN Settled(rules.required)
    ELSE IF rules.pattern.on /\ ~RegExpTest(rules.pattern.value, value)
        THEN Settled(rules.pattern.message)
    ELSE IF rules.minLength.on /\ LengthThrows(value) THEN Throws
    ELSE IF rules.minLength.on /\ LengthLess(value, rules.minLength.value)
        THEN Settled(rules.minLength.message)
    ELSE IF rules.maxLength.on /\ LengthThrows(value) THEN Throws
    ELSE IF rules.maxLength.on /\ LengthGreater(value, rules.maxLength.value)
        THEN Settled(rules.maxLength.message)
    ELSE IF rules.custom.on THEN CallsCustom
    ELSE Settled("")

\* lines 49-57 (validateField) and 88-96 (validateForm)
EvalRules(rules, value) ==
    IF rules.required # "" /\ Falsy(value) THEN Settled(rules.required)
    ELSE IF rules.minLength.on /\ LengthThrows(value) THEN Throws
    ELSE IF rules.minLength.on /\ LengthLess(value, rules.minLength.value)
        THEN Settled(rules.minLength.message)
    ELSE IF rules.maxLength.on /\ LengthThrows(value) THEN Throws
    ELSE IF rules.maxLength.on /\ LengthGreater(value, rules.maxLength.value)
        THEN Settled(rules.maxLength.message)
    ELSE IF rules.pattern.on /\ ~RegExpTest(rules.pattern.value, value)
        THEN Settled(rules.pattern.message)
    ELSE IF rules.custom.on THEN CallsCustom
    ELSE Settled("")

\* const isValid = await rules.custom.validate(value);
\* if (!isValid) error = rules.custom.message
CustomError(rules, value) ==
    IF CustomValidate(rules.custom.validate, value) THEN "" ELSE rules.custom.message

(***************************************************************************)
(* Bounds of the model.                                                     *)
(***************************************************************************)
\* calls of the engine's operations by the UI layer
MaxOps == 4
\* of which direct calls of validateField
MaxCalls == 1

VARIABLES
    validationRules,  \* the rule set given at construction
    initialValues,    \* the initialValues given at construction
    values, errors, isSubmitting, isValidating,  \* the four useState cells
    timers,           \* the pending timeouts: [id, name, value]
    debounceTimer,    \* the closure variable of debounce: the last timeout id
    inflight,         \* validateField calls awaiting their custom predicate
    submits,          \* the invocations of the submit handler, in order
    lastChange,       \* history: per field, the id and value of its last handleChange
    fired,            \* history: ids of the timeouts that have run
    superseded,       \* history: changes followed by a change of the same
                      \* field before their validation had run
    ops, calls,       \* counters of the calls made by the UI layer
    adapterLog,       \* history: the calls made by handleComponentChange
    lastOp            \* history: the step just taken

vars ==
    <<validationRules, initialValues, values, errors, isSubmitting, isValidating,
      timers, debounceTimer, inflight, submits, lastChange, fired, superseded,
      ops, calls, adapterLog, lastOp>>

config == <<validationRules, initialValues>>
debounceVars == <<timers, debounceTimer, lastChange, fired, superseded>>

Op(op, name, value, outcome) ==
    [op |-> op, name |-> name, value |-> value, outcome |-> outcome, p |-> 0]

\* a step of invocation p of the submit handler
SubmitOp(op, p, outcome) ==
    [op |-> op, name |-> "", value |-> Undefined, outcome |-> outcome, p |-> p]

\* const rules = validationRules[name]; if (rules) { ... }
HasRules(name) == name \in DOMAIN validationRules

(***************************************************************************)
(* validateField(name, value), lines 43-68: from the call to its first     *)
(* suspension.  A synchronous custom predicate is awaited within the same  *)
(* run of the event loop; an asynchronous one suspends the call.           *)
(***************************************************************************)
ValidateField(name, value, op, tag) ==
    LET out == IF HasRules(name) THEN EvalRules(validationRules[name], value)
               ELSE Settled("")
    IN  CASE out.kind = "throw" ->
                /\ UNCHANGED <<errors, inflight>>
                /\ lastOp' = Op(op, name, value, "threw")
          [] out.kind = "custom" /\ validationRules[name].custom.async ->
                /\ inflight' = inflight \cup {[tag |-> tag, name |-> name, value |-> value]}
                /\ UNCHANGED errors
                /\ lastOp' = Op(op, name, value, "awaiting")
          [] out.kind = "custom" /\ ~validationRules[name].custom.async ->
                /\ errors' = Put(errors, name, CustomError(validationRules[name], value))
                /\ UNCHANGED inflight
                /\ lastOp' = Op(op, name, value, "settled")
          [] out.kind = "error" ->
                /\ errors' = Put(errors, name, out.error)
                /\ UNCHANGED inflight
                /\ lastOp' = Op(op, name, value, "settled")

\* a direct call of the validateField the hook returns
ValidateFieldCall(name, value) ==
    /\ ops < MaxOps /\ calls < MaxCalls
    /\ ops' = ops + 1
    /\ calls' = calls + 1
    /\ ValidateField(name, value, "validateField", <<"call", calls + 1>>)
    /\ UNCHANGED <<config, adapterLog, values, isSubmitting, isValidating, submits, debounceVars>>

\* the custom predicate of a suspended validateField call resolves (line 58)
\* and the call goes on to setErrors (line 65)
CustomSettle(c) ==
    /\ c \in inflight
    /\ inflight' = inflight \ {c}
    /\ errors' = Put(errors, c.name, CustomError(validationRules[c.name], c.value))
    /\ lastOp' = Op("customSettle", c.name, c.value, "settled")
    /\ UNCHANGED <<config, adapterLog, values, isSubmitting, isValidating, submits, debounceVars,
                   ops, calls>>

(***************************************************************************)
(* debounce, lines 35-41, and handleChange, lines 72-75.  The hook makes   *)
(* one debounced function (line 70), so one debounceTimer serves every     *)
(* field.                                                                   *)
(***************************************************************************)
\* a variant of ClearTimeout that cancels nothing; C3 is checked to tell the
\* two apart
ClearTimeoutNothing(pending, id) == pending

\* clearTimeout(debounceTimer)
ClearTimeout(pending, id) == {t \in pending : t.id # id}

\* a variant of SetValues that leaves values as they were; C15 is checked to
\* tell the two apart
SetValuesNothing(prevValues, name, value) == prevValues

\* setValues((prevValues) => ({ ...prevValues, [name]: value })), line 73
SetValues(prevValues, name, value) == Put(prevValues, name, value)

\* the body of handleChange: line 73, then debouncedValidateField(name, value)
HandleChangeCall(name, value) ==
    LET id == debounceTimer + 1
    IN  /\ ops < MaxOps
        /\ ops' = ops + 1
        /\ values' = SetValues(values, name, value)
        /\ timers' = ClearTimeout(timers, debounceTimer)
                        \cup {[id |-> id, name |-> name, value |-> value]}
        /\ debounceTimer' = id
        /\ lastChange' = Put(lastChange, name, [id |-> id, value |-> value])
        /\ superseded' = superseded \cup
                (IF name \in DOMAIN lastChange THEN {lastChange[name].id} \ fired ELSE {})
        /\ lastOp' = Op("handleChange", name, value, "")
        /\ UNCHANGED <<config, errors, isSubmitting, isValidating, inflight, submits,
                       fired, calls>>

\* handleChange called by the UI layer
HandleChange(name, value) ==
    /\ HandleChangeCall(name, value)
    /\ UNCHANGED adapterLog

(***************************************************************************)
(* withFormField: handleComponentChange, lines 26-29 of the adapter, on a  *)
(* change event e of the wrapped component of field `name`.                 *)
(***************************************************************************)
ChangeEvent(value) == [target |-> [value |-> value]]

\* a variant of AdapterCalls that calls the engine first; C16 is checked to
\* tell the two apart
AdapterCallsEngineFirst(name, e) ==
    << [fn |-> "handleChange", name |-> name, event |-> ChangeEvent(e.target.value)],
       [fn |-> "onChange", name |-> name, event |-> e] >>

\* onChange(e); handleChange(name, e.target.value)
AdapterCalls(name, e) ==
    << [fn |-> "onChange", name |-> name, event |-> e],
       [fn |-> "handleChange", name |-> name, event |-> ChangeEvent(e.target.value)] >>

HandleComponentChange(name, e) ==
    /\ adapterLog' = adapterLog \o AdapterCalls(name, e)
    /\ HandleChangeCall(adapterLog'[Len(adapterLog')].name,
                        adapterLog'[Len(adapterLog')].event.target.value)

\* the timeout of line 39 runs: func(...args) is validateField(name, value)
TimerFire(t) ==
    /\ t \in timers
    /\ timers' = timers \ {t}
    /\ fired' = fired \cup {t.id}
    /\ ValidateField(t.name, t.value, "timer", <<"timer", t.id>>)
    /\ UNCHANGED <<config, adapterLog, values, isSubmitting, isValidating, submits, debounceTimer,
                   lastChange, superseded, ops, calls>>

(***************************************************************************)
(* validateForm, lines 77-114.  FormLoop runs the for-in loop from the     *)
(* i-th key with the errors collected so far, up to the end of the loop,   *)
(* a TypeError, or the await of an asynchronous custom predicate.           *)
(***************************************************************************)
\* if (error) newErrors[name] = error
Collect(newErrors, name, error) ==
    IF error # "" THEN Put(newErrors, name, error) ELSE newErrors

\* a variant of Lookup that reads the hook's current values instead of the
\* argument of validateForm; C14 is checked to tell the two apart
LookupLive(vals, name) == IF name \in DOMAIN values THEN values[name] ELSE Undefined

\* const value = values[name]
Lookup(vals, name) == IF name \in DOMAIN vals THEN vals[name] ELSE Undefined

RECURSIVE FormLoop(_, _, _)
FormLoop(i, vals, newErrors) ==
    IF i > Len(RuleOrder) THEN [kind |-> "done", at |-> i, newErrors |-> newErrors]
    ELSE IF ~HasRules(RuleOrder[i]) THEN FormLoop(i + 1, vals, newErrors)
    ELSE
        LET name == RuleOrder[i]
            rules == validationRules[name]
            value == Lookup(vals, name)
            out == EvalRules(rules, value)
        IN  CASE out.kind = "throw" ->
                    [kind |-> "throw", at |-> i, newErrors |-> newErrors]
              [] out.kind = "custom" /\ rules.custom.async ->
                    [kind |-> "await", at |-> i, newErrors |-> newErrors]
              [] out.kind = "custom" /\ ~rules.custom.async ->
                    FormLoop(i + 1, vals, Collect(newErrors, name, CustomError(rules, value)))
              [] out.kind = "error" ->
                    FormLoop(i + 1, vals, Collect(newErrors, name, out.error))

\* a variant of IsValid that reports every form valid; C5 is checked to tell
\* the two apart
IsValidAlways(newErrors) == TRUE

\* return Object.keys(newErrors).length === 0
IsValid(newErrors) == DOMAIN newErrors = {}

(***************************************************************************)
(* The handler handleSubmit(callback) returns, lines 117-124.  Progress    *)
(* takes invocation p, whose validateForm has come to `res`, on to its     *)
(* next suspension or to its end.                                           *)
(***************************************************************************)
\* a variant of CallbackArgs that passes the hook's current values; C20 is
\* checked to tell the two apart
CallbackArgsLive(inv) == values

\* callback(values), line 121: the values of the closure, which validateForm
\* was given in line 120
CallbackArgs(inv) == inv.values

SetAt(p, inv) ==
    [i \in 1..(IF p > Len(submits) THEN p ELSE Len(submits)) |->
        IF i = p THEN inv ELSE submits[i]]

Progress(p, inv, res, op, submitting, validating) ==
    CASE res.kind = "await" ->
            /\ submits' = SetAt(p, [inv EXCEPT !.pc = "validating", !.at = res.at,
                                               !.newErrors = res.newErrors])
            /\ isSubmitting' = submitting
            /\ isValidating' = validating
            /\ UNCHANGED errors
            /\ lastOp' = SubmitOp(op, p, "awaiting")
      [] res.kind = "throw" ->
            \* the TypeError rejects validateForm, and with it the handler
            /\ submits' = SetAt(p, [inv EXCEPT !.pc = "threw", !.at = res.at,
                                               !.newErrors = res.newErrors])
            /\ isSubmitting' = submitting
            /\ isValidating' = validating
            /\ UNCHANGED errors
            /\ lastOp' = SubmitOp(op, p, "threw")
      [] res.kind = "done" /\ IsValid(res.newErrors) ->
            \* setErrors(newErrors); setIsValidating(false); await callback(values)
            /\ submits' = SetAt(p, [inv EXCEPT !.pc = "callback", !.at = res.at,
                                               !.newErrors = res.newErrors,
                                               !.called = TRUE,
                                               !.arg = CallbackArgs(inv)])
            /\ errors' = res.newErrors
            /\ isValidating' = FALSE
            /\ isSubmitting' = submitting
            /\ lastOp' = SubmitOp(op, p, "callback")
      [] res.kind = "done" /\ ~IsValid(res.newErrors) ->
            \* setErrors(newErrors); setIsValidating(false); setIsSubmitting(false)
            /\ submits' = SetAt(p, [inv EXCEPT !.pc = "returned", !.at = res.at,
                                               !.newErrors = res.newErrors])
            /\ errors' = res.newErrors
            /\ isValidating' = FALSE
            /\ isSubmitting' = FALSE
            /\ lastOp' = SubmitOp(op, p, "returned")

\* the handler is invoked: setIsSubmitting(true), then validateForm(values) with
\* the values of the render that made the handler; validateForm begins with
\* setIsValidating(true)
SubmitStart ==
    LET p == Len(submits) + 1
        inv == [pc |-> "start", values |-> values, at |-> 1, newErrors |-> EmptyMap,
                called |-> FALSE, arg |-> EmptyMap]
    IN  /\ ops < MaxOps
        /\ ops' = ops + 1
        /\ Progress(p, inv, FormLoop(1, values, EmptyMap), "submit", TRUE, TRUE)
        /\ UNCHANGED <<config, adapterLog, values, inflight, debounceVars, calls>>

\* the asynchronous custom predicate validateForm awaits (line 97) resolves and
\* the loop goes on
FormCustomSettle(p) ==
    /\ p \in 1..Len(submits)
    /\ submits[p].pc = "validating"
    /\ LET inv == submits[p]
           name == RuleOrder[inv.at]
           error == CustomError(validationRules[name], Lookup(inv.values, name))
           res == FormLoop(inv.at + 1, inv.values, Collect(inv.newErrors, name, error))
       IN  Progress(p, inv, res, "formSettle", isSubmitting, isValidating)
    /\ UNCHANGED <<config, adapterLog, values, inflight, debounceVars, ops, calls>>

\* the promise of callback(values) settles (line 121): resolved, the handler
\* goes on to setIsSubmitting(false); rejected, the handler rejects
CallbackSettle(p, outcome) ==
    /\ p \in 1..Len(submits)
    /\ submits[p].pc = "callback"
    /\ submits' = [submits EXCEPT ![p].pc =
                        IF outcome = "resolve" THEN "returned" ELSE "threw"]
    /\ isSubmitting' = IF outcome = "resolve" THEN FALSE ELSE isSubmitting
    /\ lastOp' = SubmitOp("callbackSettle", p,
                          IF outcome = "resolve" THEN "returned" ELSE "threw")
    /\ UNCHANGED <<config, adapterLog, values, errors, isValidating, inflight, debounceVars,
                   ops, calls>>

\* a variant of ResetForm without setErrors({}); C12 is checked to tell the
\* two apart
ResetFormKeepErrors ==
    /\ ops < MaxOps
    /\ ops' = ops + 1
    /\ values' = initialValues
    /\ lastOp' = Op("resetForm", "", Undefined, "")
    /\ UNCHANGED <<config, adapterLog, errors, isSubmitting, isValidating, inflight, submits,
                   debounceVars, calls>>

\* resetForm, lines 128-131
ResetForm ==
    /\ ops < MaxOps
    /\ ops' = ops + 1
    /\ values' = initialValues
    /\ errors' = EmptyMap
    /\ lastOp' = Op("resetForm", "", Undefined, "")
    /\ UNCHANGED <<config, adapterLog, isSubmitting, isValidating, inflight, submits, debounceVars,
                   calls>>

InitState ==
    /\ values = initialValues
    /\ errors = EmptyMap
    /\ isSubmitting = FALSE
    /\ isValidating = FALSE
    /\ timers = {}
    /\ debounceTimer = 0
    /\ inflight = {}
    /\ submits = <<>>
    /\ lastChange = EmptyMap
    /\ fired = {}
    /\ superseded = {}
    /\ ops = 0
    /\ calls = 0
    /\ adapterLog = <<>>
    /\ lastOp = Op("init", "", Undefined, "")

(***************************************************************************)
(* SpecRules: every rule set of one field, validated by direct calls.      *)
(***************************************************************************)
InitRules ==
    /\ validationRules \in {[n \in {"username"} |-> r] : r \in ValidationRule}
    /\ initialValues = EmptyMap
    /\ InitState

NextRules ==
    \/ \E name \in Names, value \in Values : ValidateFieldCall(name, value)
    \/ \E c \in inflight : CustomSettle(c)

SpecRules == InitRules /\ [][NextRules]_vars

(***************************************************************************)
(* Spec: the whole engine under a few rule sets.                            *)
(***************************************************************************)
\* the rule set of the test suite (username and email)
TestRules ==
    [n \in {"username", "email"} |->
        IF n = "username"
        THEN [required |-> "Username is required", minLength |-> MinLengthRule,
              maxLength |-> NoBound, pattern |-> NoPattern, custom |-> TakenRule]
        ELSE [required |-> "Email is required", minLength |-> NoBound,
              maxLength |-> NoBound, pattern |-> PatternRule, custom |-> NoCustom]]

\* a rule set with a length rule and no required rule, and no rules for email
LengthRules ==
    [n \in {"username"} |->
        [required |-> "", minLength |-> MinLengthRule, maxLength |-> NoBound,
         pattern |-> NoPattern, custom |-> TakenRule]]

\* a rule set whose custom predicate is synchronous, as that of the test
\* suite's age field
SyncRules ==
    [n \in {"username", "email"} |->
        IF n = "username"
        THEN [required |-> "Username is required", minLength |-> NoBound,
              maxLength |-> NoBound, pattern |-> NoPattern, custom |-> AdultRule]
        ELSE [required |-> "", minLength |-> MinLengthRule, maxLength |-> NoBound,
              pattern |-> NoPattern, custom |-> NoCustom]]

\* the values the UI layer supplies
ChangeValues == {Taken, Mail}

\* the test suite's form, and forms constructed without initialValues
Init ==
    /\ \/ validationRules = TestRules /\ initialValues = [n \in Names |-> EmptyString]
       \/ validationRules = TestRules /\ initialValues = EmptyMap
       \/ validationRules = LengthRules /\ initialValues = EmptyMap
       \/ validationRules = SyncRules /\ initialValues = [n \in Names |-> EmptyString]
    /\ InitState

Next ==
    \/ \E name \in Names, value \in ChangeValues : HandleChange(name, value)
    \/ \E t \in timers : TimerFire(t)
    \/ \E name \in Names, value \in ChangeValues : ValidateFieldCall(name, value)
    \/ \E c \in inflight : CustomSettle(c)
    \/ SubmitStart
    \/ \E p \in 1..Len(submits) : FormCustomSettle(p)
    \/ \E p \in 1..Len(submits), outcome \in {"resolve", "reject"} : CallbackSettle(p, outcome)
    \/ ResetForm

Spec == Init /\ [][Next]_vars

(***************************************************************************)
(* The verdict of each rule on a value, taken alone.                        *)
(***************************************************************************)
FalsyValues == {EmptyString, Num(0), Null, Undefined}
FailsRequired(rules, value) == rules.required # "" /\ value \in FalsyValues
FailsMinLength(rules, value) ==
    rules.minLength.on /\ value.t = "string" /\ Len(value.s) < rules.minLength.value
FailsMaxLength(rules, value) ==
    rules.maxLength.on /\ value.t = "string" /\ Len(value.s) > rules.maxLength.value
FailsPattern(rules, value) ==
    rules.pattern.on /\ ~RegExpTest(rules.pattern.value, value)
FailsCustom(rules, value) ==
    rules.custom.on /\ ~CustomValidate(rules.custom.validate, value)

\* the verdicts in the order required, minLength, maxLength, pattern, custom
Verdicts(rules, value) ==
    << [fails |-> FailsRequired(rules, value), message |-> rules.required],
       [fails |-> FailsMinLength(rules, value), message |-> rules.minLength.message],
       [fails |-> FailsMaxLength(rules, value), message |-> rules.maxLength.message],
       [fails |-> FailsPattern(rules, value), message |-> rules.pattern.message],
       [fails |-> FailsCustom(rules, value), message |-> rules.custom.message] >>

FirstFailingMessage(rules, value) ==
    LET v == Verdicts(rules, value)
        failing == {i \in 1..Len(v) : v[i].fails}
    IN  IF failing = {} THEN ""
        ELSE v[CHOOSE i \in failing : \A j \in failing : i <= j].message

\* the step just taken is a validateField call that has written its outcome
FieldSettled ==
    /\ lastOp.op \in {"validateField", "timer", "customSettle"}
    /\ lastOp.outcome = "settled"
    /\ HasRules(lastOp.name)

C2_Required ==
    (FieldSettled /\ validationRules[lastOp.name].required # "") =>
        LET rules == validationRules[lastOp.name]
            value == lastOp.value
        IN  /\ value \in FalsyValues => errors[lastOp.name] = rules.required
            /\ ( /\ value \notin FalsyValues
                 /\ ~FailsMinLength(rules, value)
                 /\ ~FailsMaxLength(rules, value)
                 /\ ~FailsPattern(rules, value)
                 /\ ~FailsCustom(rules, value) ) => errors[lastOp.name] = ""

C2_Witness ==
    /\ FieldSettled
    /\ lastOp.op = "customSettle"
    /\ lastOp.value = Mail
    /\ validationRules[lastOp.name].required # ""
    /\ validationRules[lastOp.name].minLength.on
    /\ validationRules[lastOp.name].maxLength.on
    /\ validationRules[lastOp.name].pattern.on
    /\ errors[lastOp.name] = ""

(***************************************************************************)
(* SpecDebounce: the engine driven by handleChange alone.                   *)
(***************************************************************************)
NextDebounce ==
    \/ \E name \in Names, value \in ChangeValues : HandleChange(name, value)
    \/ \E t \in timers : TimerFire(t)
    \/ \E c \in inflight : CustomSettle(c)

SpecDebounce == Init /\ [][NextDebounce]_vars

PendingIds == {t.id : t \in timers}

\* C3: of several handleChange calls for one field within one debounce
\* window, no validation but the last one's is pending or has run, the last
\* one's is pending or has run, and it is run on the last supplied value.
C3_DebounceCollapses ==
    /\ superseded \cap (fired \cup PendingIds) = {}
    /\ debounceTimer > 0 => debounceTimer \in fired \cup PendingIds
    /\ \A t \in timers : lastChange[t.name] = [id |-> t.id, value |-> t.value]
    /\ lastOp.op = "timer" => lastOp.value = lastChange[lastOp.name].value

C3_Witness ==
    /\ \E name \in Names : lastChange = [n \in {name} |-> [id |-> 3, value |-> Mail]]
    /\ superseded = {1, 2}
    /\ fired = {3}
    /\ timers = {}
    /\ lastOp.op = "timer"

\* C4: a handleChange for one field never cancels the pending validation of
\* another field: the validation of each field's latest change is pending or
\* has run.
C4_KeyedByField ==
    \A name \in DOMAIN lastChange : lastChange[name].id \in fired \cup PendingIds

\* C5: the callback of an invocation of the submit handler is invoked only
\* after its validateForm has returned, and only when validateForm found no
\* failing field.
C5_CallbackOnlyWhenValid ==
    \A p \in 1..Len(submits) :
        /\ submits[p].called =>
                /\ submits[p].newErrors = EmptyMap
                /\ submits[p].pc \in {"callback", "returned", "threw"}
        /\ submits[p].pc = "validating" => ~submits[p].called

C5_Witness ==
    \E p \in 1..Len(submits) :
        /\ submits[p].pc = "returned"
        /\ submits[p].newErrors # EmptyMap
        /\ ~submits[p].called
        /\ errors = submits[p].newErrors

\* the step just taken ended an invocation of the submit handler
SubmitEnded ==
    /\ lastOp.op \in {"submit", "formSettle", "callbackSettle"}
    /\ lastOp.outcome \in {"returned", "threw"}

\* C6: an invocation of the submit handler has isSubmitting true while it is
\* suspended right after its start, and has cleared it when it ends.
C6_SubmittingCleared ==
    /\ (lastOp.op = "submit" /\ lastOp.outcome \in {"awaiting", "callback"}) => isSubmitting
    /\ SubmitEnded => ~isSubmitting

\* the step just taken ended the validateForm call of an invocation
ValidateFormEnded ==
    /\ lastOp.op \in {"submit", "formSettle"}
    /\ lastOp.outcome \in {"callback", "returned", "threw"}

\* C7: validateForm evaluates every field of the rule set, replaces errors by
\* exactly the failing fields, each with its first failing rule's message,
\* and returns true iff there is none.
C7_ValidateFormReplacesErrors ==
    ValidateFormEnded =>
        LET inv == submits[lastOp.p]
            failing == {n \in DOMAIN validationRules :
                FirstFailingMessage(validationRules[n], Lookup(inv.values, n)) # ""}
        IN  /\ lastOp.outcome # "threw"
            /\ errors = [n \in failing |->
                    FirstFailingMessage(validationRules[n], Lookup(inv.values, n))]
            /\ inv.called <=> failing = {}

\* the error the rules give a value, when they give one
HasVerdict(name, value) ==
    HasRules(name) => EvalRules(validationRules[name], value).kind # "throw"
ExpectedError(name, value) ==
    IF HasRules(name) THEN FirstFailingMessage(validationRules[name], value) ELSE ""

\* C8: once the debounce timer of a field's last handleChange has run and no
\* custom predicate of the field is awaited, errors holds the outcome of the
\* rules on the value of that last handleChange.
C8_LatestValueWins ==
    \A name \in DOMAIN lastChange :
        ( /\ lastChange[name].id \in fired
          /\ \A c \in inflight : c.name # name
          /\ HasVerdict(name, lastChange[name].value) )
        => /\ name \in DOMAIN errors
           /\ errors[name] = ExpectedError(name, lastChange[name].value)

\* C9: isValidating is true at every point while a validateForm call is in
\* progress.
C9_TrueWhileInProgress ==
    (\E p \in 1..Len(submits) : submits[p].pc = "validating") => isValidating

\* C10: validateField and validateForm never end by raising an exception.
C10_NeverThrows ==
    ~(lastOp.op \in {"validateField", "timer", "submit", "formSettle"}
        /\ lastOp.outcome = "threw")

(***************************************************************************)
(* SpecReject: the engine with asynchronous custom predicates that may     *)
(* reject.  Neither validateField nor validateForm nor the submit handler  *)
(* has a try/catch around the await of lines 58 and 97.                     *)
(***************************************************************************)
\* the custom predicate of a suspended validateField call rejects: the await
\* of line 58 throws and validateField rejects before line 65
CustomReject(c) ==
    /\ c \in inflight
    /\ inflight' = inflight \ {c}
    /\ lastOp' = Op("customReject", c.name, c.value, "threw")
    /\ UNCHANGED <<config, adapterLog, values, errors, isSubmitting, isValidating, submits,
                   debounceVars, ops, calls>>

\* the custom predicate validateForm awaits rejects: the await of line 97
\* throws, validateForm rejects before lines 109-110 and the handler before
\* line 123
FormCustomReject(p) ==
    /\ p \in 1..Len(submits)
    /\ submits[p].pc = "validating"
    /\ submits' = [submits EXCEPT ![p].pc = "threw"]
    /\ lastOp' = SubmitOp("formReject", p, "threw")
    /\ UNCHANGED <<config, adapterLog, values, errors, isSubmitting, isValidating, inflight,
                   debounceVars, ops, calls>>

NextReject ==
    \/ Next
    \/ \E c \in inflight : CustomReject(c)
    \/ \E p \in 1..Len(submits) : FormCustomReject(p)

SpecReject == Init /\ [][NextReject]_vars

\* C11: a custom predicate that rejects counts as a failed validation: the
\* call does not end by raising, the field has an error in errors, a
\* validateForm reports the form invalid, and isValidating and isSubmitting
\* are false again.
C11_RejectionIsFailure ==
    /\ lastOp.op = "customReject" =>
            /\ lastOp.outcome # "threw"
            /\ lastOp.name \in DOMAIN errors
            /\ errors[lastOp.name] # ""
    /\ lastOp.op = "formReject" =>
            /\ lastOp.outcome = "returned"
            /\ ~submits[lastOp.p].called
            /\ ~isValidating
            /\ ~isSubmitting

\* C12: resetForm sets values to initialValues and errors to the empty map,
\* whatever the state before, runs no validation (it starts none and cancels
\* none), and leaves isSubmitting and isValidating unchanged.
C12_ResetRestores ==
    [][(lastOp'.op = "resetForm" /\ ops' # ops) =>
            /\ values' = initialValues
            /\ errors' = EmptyMap
            /\ UNCHANGED <<isSubmitting, isValidating>>
            /\ UNCHANGED <<timers, inflight, submits, fired>>]_vars

C12_Witness ==
    /\ lastOp.op = "resetForm"
    /\ values = initialValues
    /\ errors = EmptyMap
    /\ isSubmitting
    /\ inflight # {}

\* C13: values has an entry for every key of initialValues.
C13_InitialKeysKept == DOMAIN initialValues \subseteq DOMAIN values

C13_Witness ==
    /\ DOMAIN initialValues = Names
    /\ lastOp.op = "handleChange"
    /\ values[lastOp.name] = lastOp.value
    /\ \E n \in Names \ {lastOp.name} : values[n] = initialValues[n]
    /\ submits # <<>>

\* what the validateForm call of invocation p came to
FormResult(p) ==
    [errors |-> submits[p].newErrors,
     valid |-> submits[p].called,
     threw |-> submits[p].pc = "threw" /\ ~submits[p].called]

\* C14: two validateForm calls on the same values come to the same errors map
\* and the same return value, and the errors map is what errors holds when
\* the call returns.
C14_Idempotent ==
    /\ \A p, q \in 1..Len(submits) :
            ( /\ p < q
              /\ submits[p].values = submits[q].values
              /\ submits[p].pc # "validating"
              /\ submits[q].pc # "validating" )
            => FormResult(p) = FormResult(q)
    /\ (ValidateFormEnded /\ lastOp.outcome # "threw")
            => errors = submits[lastOp.p].newErrors

C14_Witness ==
    /\ Len(submits) = 2
    /\ submits[1].values = submits[2].values
    /\ submits[1].pc = "returned" /\ submits[2].pc = "returned"
    /\ submits[1].newErrors # EmptyMap
    /\ submits[1].newErrors = submits[2].newErrors
    /\ lastOp = SubmitOp("formSettle", 2, "returned")
    /\ errors = submits[2].newErrors

\* C20: the callback is passed the values its invocation's validateForm was
\* given, and every rule of every field of the rule set passes on them.
C20_CallbackGetsValidated ==
    \A p \in 1..Len(submits) :
        submits[p].called =>
            /\ submits[p].arg = submits[p].values
            /\ \A n \in DOMAIN validationRules :
                FirstFailingMessage(validationRules[n], Lookup(submits[p].arg, n)) = ""

C20_Witness ==
    /\ lastOp.op = "formSettle"
    /\ lastOp.outcome = "callback"
    /\ submits[lastOp.p].called
    /\ submits[lastOp.p].arg = submits[lastOp.p].values
    /\ values # submits[lastOp.p].values

\* C15: handleChange(name, value) sets values[name] to value in the call,
\* leaves the other entries of values, errors, isSubmitting and isValidating
\* as they were, and only schedules the validation: a validation that runs is
\* one whose timeout was pending, so its value update has completed.
C15_HandleChangeImmediate ==
    [][ /\ (lastOp'.op = "handleChange" /\ ops' # ops) =>
                /\ DOMAIN values' = DOMAIN values \cup {lastOp'.name}
                /\ values'[lastOp'.name] = lastOp'.value
                /\ \A k \in DOMAIN values \ {lastOp'.name} : values'[k] = values[k]
                /\ UNCHANGED <<errors, isSubmitting, isValidating>>
                /\ UNCHANGED <<fired, inflight>>
                /\ \E t \in timers' :
                        t.id \notin fired' /\ t.name = lastOp'.name /\ t.value = lastOp'.value
        /\ fired' # fired =>
                \E t \in timers :
                    /\ fired' = fired \cup {t.id}
                    /\ lastOp' = Op("timer", t.name, t.value, lastOp'.outcome)
      ]_vars

C15_Witness ==
    /\ lastOp.op = "handleChange"
    /\ values[lastOp.name] = lastOp.value
    /\ \E n \in DOMAIN errors : errors[n] # ""
    /\ isSubmitting
    /\ \E t \in timers : t.name = lastOp.name /\ t.value = lastOp.value

(***************************************************************************)
(* SpecAdapter: the engine driven by change events of wrapped components.  *)
(***************************************************************************)
NextAdapter ==
    \/ \E name \in Names, value \in ChangeValues :
            HandleComponentChange(name, ChangeEvent(value))
    \/ \E t \in timers : TimerFire(t)
    \/ \E c \in inflight : CustomSettle(c)

SpecAdapter == Init /\ [][NextAdapter]_vars

\* C16: per change event the adapter calls onChange with the event and then
\* the engine's handleChange(name, event.target.value), each once.
C16_OnChangeThenHandleChange ==
    /\ Len(adapterLog) = 2 * ops
    /\ \A i \in 1..ops :
            /\ adapterLog[2 * i - 1].fn = "onChange"
            /\ adapterLog[2 * i].fn = "handleChange"
            /\ adapterLog[2 * i].name = adapterLog[2 * i - 1].name
            /\ adapterLog[2 * i].event.target.value
                    = adapterLog[2 * i - 1].event.target.value
    /\ lastOp.op = "handleChange" =>
            /\ adapterLog[Len(adapterLog)].name = lastOp.name
            /\ adapterLog[Len(adapterLog) - 1].event = ChangeEvent(lastOp.value)

C16_Witness ==
    /\ Len(adapterLog) = 4
    /\ adapterLog[3] = [fn |-> "onChange", name |-> "email", event |-> ChangeEvent(Mail)]
    /\ lastOp = Op("handleChange", "email", Mail, "")
    /\ values["email"] = Mail

\* the step is a validateField call reaching its end: a direct call or a
\* debounced one that does not suspend, or a suspended one resuming
ValidateFieldEnds ==
    \/ lastOp'.op = "validateField" /\ ops' # ops /\ lastOp'.outcome # "awaiting"
    \/ lastOp'.op = "timer" /\ fired' # fired /\ lastOp'.outcome # "awaiting"
    \/ lastOp'.op = "customSettle" /\ inflight' # inflight

\* C17: each validateField(name, value) call overwrites errors[name] with the
\* outcome of this call alone ('' when the rules pass or the field has no rule
\* set) and leaves the other errors, values, isSubmitting and isValidating
\* unchanged.
C17_OverwritesOwnError ==
    [][ ValidateFieldEnds =>
            /\ DOMAIN errors' = DOMAIN errors \cup {lastOp'.name}
            /\ errors'[lastOp'.name] = ExpectedError(lastOp'.name, lastOp'.value)
            /\ \A k \in DOMAIN errors \ {lastOp'.name} : errors'[k] = errors[k]
            /\ UNCHANGED <<values, isSubmitting, isValidating>>
      ]_vars

\* C18: isSubmitting is true whenever an invocation of the submit handler is
\* in progress (in validateForm or awaiting the callback), also when
\* invocations overlap.
C18_TrueWhileAnySubmit ==
    (\E p \in 1..Len(submits) : submits[p].pc \in {"validating", "callback"})
        => isSubmitting

\* C19: after resetForm, as long as no handleChange, validateField or submit
\* is invoked, no error is written: errors holds no message.
C19_NoErrorAfterReset ==
    [][ (lastOp.op = "resetForm" /\ ops' = ops)
            => \A k \in DOMAIN errors' : errors'[k] = ""
      ]_vars

====
